---- MODULE Spec2Model ----
(***************************************************************************)
(* Model of the reconciliation engine of mt5_copier_fixed.py (MT5Copier): *)
(* the polling cycle run_copy_cycle, the per-follower pass                *)
(* sync_orders_to_follower, the per-order state machine                   *)
(* _process_master_order, the orphan cleanup, the change detector and the *)
(* lot sizing calculator.                                                 *)
(*                                                                         *)
(* Units.  Prices, stop-loss and take-profit are integers in units of     *)
(* 0.000005, so that the tolerance 0.00001 of the code is Tol = 2 and a   *)
(* difference below, at and above the tolerance can be told apart.        *)
(* Volumes are in hundredths of a lot; a computed volume is a fraction    *)
(* [num, den] of hundredths.                                              *)
(***************************************************************************)
EXTENDS Integers, Sequences, FiniteSets, TLC

VARIABLES
    master,             \* master account at the terminal: ticket -> order
    facct,              \* follower accounts at the terminal: login -> (ticket -> order)
    next_ticket,        \* next ticket each terminal hands out: "master" / login
    events,             \* number of account events so far (bounded)
    faults,             \* number of collaborator failures so far (bounded)
    follower_orders,    \* self.follower_orders: master_ticket -> (login -> follower_ticket)
    last_master_state,  \* self.last_master_state: ticket -> order
    order_sync_status,  \* self.order_sync_status: master_ticket -> (login -> status)
    manually_closed,    \* self.manually_closed: master_ticket -> set of logins
    pc,                 \* position of the cycle: idle / follower / process / cleanup
    master_orders,      \* run_copy_cycle's local list master_orders
    fidx,               \* index in self.follower_accounts of the follower in turn
    f_orders,           \* sync_orders_to_follower's local dict follower_orders
    midx,               \* index in master_orders of the order in turn
    orders_to_close,    \* _cleanup_orphaned_orders' local list
    cidx,               \* index in orders_to_close
    log,                \* decisions and requests of the current cycle, in order
    prev_log,           \* the same of the cycle before
    same_snapshot,      \* the snapshot of the current cycle equals the previous one
    removed_now,        \* tickets of the previous snapshot absent from the current
    lot,                \* inputs and result of one calculate_lot_size or map_symbol call
    enabled             \* config['followers'][i]['enabled'] of each follower: login -> flag

vars == <<master, facct, next_ticket, events, faults, follower_orders, last_master_state,
          order_sync_status, manually_closed, pc, master_orders, fidx, f_orders,
          midx, orders_to_close, cidx, log, prev_log, same_snapshot, removed_now,
          lot, enabled>>

(***************************************************************************)
(* Bounds of the model.                                                    *)
(***************************************************************************)
NumTickets == 2
NumFollowers == 2
MaxEvents == 4
MaxFaults == 1

Tickets == 1..NumTickets
Followers == 1..NumFollowers

(***************************************************************************)
(* Program constants.                                                      *)
(***************************************************************************)
Tol == 2
ORDER_TYPE_BUY == 0
ORDER_TYPE_SELL == 1
ORDER_TYPE_BUY_LIMIT == 2

Levels == {0, Tol + 1}
FineLevels == 0..(Tol + 1)
BasePrice == 2 * (Tol + 1)
Volumes == {100}

(***************************************************************************)
(* Python dicts as functions with a growing and shrinking domain.         *)
(***************************************************************************)
EmptyDict == <<>>
DictPut(d, k, v) == [x \in (DOMAIN d) \cup {k} |-> IF x = k THEN v ELSE d[x]]
DictDel(d, k) == [x \in (DOMAIN d) \ {k} |-> d[x]]
DictGet(d, k, default) == IF k \in DOMAIN d THEN d[k] ELSE default

Abs(x) == IF x < 0 THEN -x ELSE x

RECURSIVE SortedSeq(_)
SortedSeq(S) ==
    IF S = {} THEN <<>>
    ELSE LET m == CHOOSE x \in S : \A y \in S : x <= y
         IN  <<m>> \o SortedSeq(S \ {m})

IsPosition(o) == o.order_type \in {ORDER_TYPE_BUY, ORDER_TYPE_SELL}

(***************************************************************************)
(* Fractions of hundredths of a lot.                                       *)
(***************************************************************************)
Frac(n, d) == [num |-> n, den |-> d]
FracLeq(a, b) == a.num * b.den <= b.num * a.den
FracMax(a, b) == IF FracLeq(a, b) THEN b ELSE a
FracMin(a, b) == IF FracLeq(a, b) THEN a ELSE b

\* Python's round(): to the nearest integer, a tie to the even one.
PyRound(n, d) ==
    LET q == n \div d
        r == n % d
    IN  IF 2 * r < d THEN q
        ELSE IF 2 * r > d THEN q + 1
        ELSE IF q % 2 = 0 THEN q ELSE q + 1

(***************************************************************************)
(* Configuration (read-only input of the engine).                          *)
(***************************************************************************)
\* The flag of a follower entry that does not set it (line 74).
AllEnabled == [f \in Followers |-> TRUE]

\* One entry of config['followers']; login f is also its place in the list.
FollowerConfig(f) ==
    [login           |-> f,
     lot_calculation |-> IF f = 1 THEN "multiplier" ELSE "fixed",
     lot_value       |-> IF f = 1 THEN 50 ELSE 10,
     min_lot         |-> 1,
     max_lot         |-> 500,
     magic_number    |-> 7000 + f,
     enabled         |-> enabled[f],
     symbol_mapping  |-> IF f = 1 THEN EmptyDict ELSE [EURUSD |-> "EURUSD.m"]]

\* What mt5.symbol_info gives for a symbol the terminal knows.
SymbolInfo == [avail |-> TRUE, trade_contract_size |-> 10, trade_tick_value |-> 10,
               volume_step |-> 1]
NoSymbolInfo == [avail |-> FALSE, trade_contract_size |-> 0, trade_tick_value |-> 0,
                 volume_step |-> 0]
AccountInfo == [avail |-> TRUE, balance |-> 1000]

(***************************************************************************)
(* Symbol Mapper.                                                          *)
(***************************************************************************)
\* Mutant: the mapping table is not consulted.
MapNothing(master_symbol, follower_config) == master_symbol

map_symbol(master_symbol, follower_config) ==
    DictGet(follower_config.symbol_mapping, master_symbol, master_symbol)

(***************************************************************************)
(* Lot Sizing Calculator.  lot_value is in hundredths (0.5 is 50), volumes *)
(* and bounds in hundredths of a lot; the result is a fraction of          *)
(* hundredths.  sym_calc and sym_round are what get_symbol_info returns at *)
(* its two call sites.                                                     *)
(***************************************************************************)
\* Mutant: the risk_based policy takes the master volume as it is.
RiskBasedUnscaled(master_volume, cfg, account_info, sym_calc) ==
    CASE cfg.lot_calculation = "fixed" ->
            [ret |-> FALSE, v |-> [num |-> cfg.lot_value, den |-> 1]]
      [] cfg.lot_calculation = "risk_based" ->
            [ret |-> FALSE, v |-> [num |-> master_volume, den |-> 1]]
      [] OTHER ->
            [ret |-> FALSE, v |-> [num |-> master_volume * cfg.lot_value, den |-> 100]]

\* calculated_lot before clamping, or the marker of an early return.
RawLot(master_volume, cfg, account_info, sym_calc) ==
    CASE cfg.lot_calculation = "fixed" ->
            [ret |-> FALSE, v |-> Frac(cfg.lot_value, 1)]
      [] cfg.lot_calculation = "multiplier" ->
            [ret |-> FALSE, v |-> Frac(master_volume * cfg.lot_value, 100)]
      [] cfg.lot_calculation = "percent_balance" ->
            IF ~account_info.avail \/ ~sym_calc.avail
               \/ sym_calc.trade_contract_size * sym_calc.trade_tick_value = 0
            THEN [ret |-> TRUE, v |-> Frac(master_volume, 1)]
            ELSE [ret |-> FALSE,
                  v |-> Frac(account_info.balance * cfg.lot_value,
                             100 * sym_calc.trade_contract_size
                                 * sym_calc.trade_tick_value)]
      [] cfg.lot_calculation = "risk_based" ->
            [ret |-> FALSE, v |-> Frac(master_volume * cfg.lot_value, 100)]
      [] OTHER ->
            [ret |-> TRUE, v |-> Frac(master_volume, 1)]

\* max(min_lot, min(max_lot, calculated_lot))
ClampLot(v, cfg) == FracMax(Frac(cfg.min_lot, 1), FracMin(Frac(cfg.max_lot, 1), v))

\* round(calculated_lot / lot_step) * lot_step
RoundLot(v, lot_step) == Frac(PyRound(v.num, v.den * lot_step) * lot_step, 1)

calculate_lot_size(master_volume, cfg, account_info, sym_calc, sym_round) ==
    LET raw == RawLot(master_volume, cfg, account_info, sym_calc)
        clamped == ClampLot(raw.v, cfg)
    IN  IF raw.ret THEN raw.v
        ELSE IF ~sym_round.avail THEN clamped
        ELSE IF sym_round.volume_step = 0 THEN Frac(master_volume, 1)
        ELSE RoundLot(clamped, sym_round.volume_step)

(***************************************************************************)
(* Change Detector.                                                        *)
(***************************************************************************)
\* Mutant: the comparison with the tolerance is not strict.
ExceedsOrEqual(a, b) == Abs(a - b) >= Tol

\* abs(a - b) > 0.00001
Exceeds(a, b) == Abs(a - b) > Tol

\* A volume in hundredths of a lot, in the unit the tolerance is counted in:
\* 0.01 is a thousand times the tolerance 0.00001.
LotUnits(volume) == volume * 1000 * Tol

\* Mutant: every master order counts as changed.
AlwaysChanged(master_order, last) == TRUE

\* Mutant: only the price is compared with the previous snapshot.
ChangedPriceOnly(master_order, last) ==
    IF master_order.ticket \notin DOMAIN last THEN TRUE
    ELSE Exceeds(master_order.price, last[master_order.ticket].price)

_has_master_order_changed(master_order, last) ==
    IF master_order.ticket \notin DOMAIN last THEN TRUE
    ELSE LET last_order == last[master_order.ticket]
         IN  \/ Exceeds(master_order.price, last_order.price)
             \/ Exceeds(master_order.sl, last_order.sl)
             \/ Exceeds(master_order.tp, last_order.tp)
             \/ Exceeds(LotUnits(master_order.volume), LotUnits(last_order.volume))

\* Mutant: the detector always reports changes.
DetectAlwaysChanged(current_master_state, last) == TRUE

\* changes['has_changes']
_detect_master_changes(current_master_state, last) ==
    LET current_tickets == DOMAIN current_master_state
        last_tickets == DOMAIN last
    IN  \/ current_tickets \ last_tickets # {}
        \/ last_tickets \ current_tickets # {}
        \/ \E ticket \in current_tickets \cap last_tickets :
              _has_master_order_changed(current_master_state[ticket], last)

(***************************************************************************)
(* Modification check: the parameters of the modify call, empty when no    *)
(* call is made.                                                           *)
(***************************************************************************)
\* hasattr(follower_order, 'price_open'): orders and positions both carry it.
HasPriceOpen(follower_order) == TRUE

_check_order_modifications(master_order, follower_order) ==
    LET sl_changed == Exceeds(master_order.sl, follower_order.sl)
        tp_changed == Exceeds(master_order.tp, follower_order.tp)
        price_changed == /\ HasPriceOpen(follower_order)
                         /\ Exceeds(master_order.price, follower_order.price_open)
        keys == {k \in {"sl", "tp", "price"} :
                    \/ k = "sl" /\ sl_changed
                    \/ k = "tp" /\ tp_changed
                    \/ k = "price" /\ price_changed}
    IN  [k \in keys |-> CASE k = "sl" -> master_order.sl
                          [] k = "tp" -> master_order.tp
                          [] OTHER -> master_order.price]

\* What mt5.order_send does to the order on a confirmed modify: a position
\* takes sl and tp (TRADE_ACTION_SLTP), a pending order price, sl and tp.
ModifyEffect(o, params) ==
    [o EXCEPT !.sl = DictGet(params, "sl", o.sl),
              !.tp = DictGet(params, "tp", o.tp),
              !.price_open = IF IsPosition(o) THEN o.price_open
                             ELSE DictGet(params, "price", o.price_open)]

(***************************************************************************)
(* The terminal and the accounts (the engine's environment).  Accounts     *)
(* change between cycles; a ticket is never handed out twice.              *)
(***************************************************************************)
MasterSymbol == "EURUSD"

CopyComment(master_ticket) == <<"Copy:", master_ticket>>

\* comment.startswith('Copy:') and int(comment.split(':')[1]); 0 when the
\* comment does not decode.
CommentTicket(comment) ==
    IF Len(comment) = 2 /\ comment[1] = "Copy:" THEN comment[2] ELSE 0

\* What a collaborator call can answer while failures are still allowed.
Outcomes == IF faults < MaxFaults THEN BOOLEAN ELSE {TRUE}
Fault(success) == IF success THEN faults ELSE faults + 1

idleLocals == <<master_orders, fidx, f_orders, midx, orders_to_close, cidx>>
history == <<log, prev_log, same_snapshot, removed_now>>
tables == <<follower_orders, last_master_state, order_sync_status, manually_closed>>

MasterOpen ==
    /\ pc = "idle" /\ events < MaxEvents
    /\ next_ticket[0] <= NumTickets
    /\ \E ty \in {ORDER_TYPE_BUY, ORDER_TYPE_BUY_LIMIT}, v \in Volumes :
          master' = DictPut(master, next_ticket[0],
                            [ticket |-> next_ticket[0], symbol |-> MasterSymbol,
                             order_type |-> ty, volume |-> v, price |-> BasePrice,
                             sl |-> 0, tp |-> 0])
    /\ next_ticket' = [next_ticket EXCEPT ![0] = @ + 1]
    /\ events' = events + 1
    /\ UNCHANGED <<facct, faults, tables, pc, idleLocals, history, lot>>
    /\ UNCHANGED enabled

MasterModify ==
    /\ pc = "idle" /\ events < MaxEvents
    /\ \E t \in DOMAIN master, fld \in {"sl", "tp", "price"}, v \in Levels :
          LET new == CASE fld = "sl" -> [master[t] EXCEPT !.sl = v]
                       [] fld = "tp" -> [master[t] EXCEPT !.tp = v]
                       [] OTHER -> [master[t] EXCEPT !.price = BasePrice + v]
          IN  /\ new # master[t]
              /\ master' = [master EXCEPT ![t] = new]
    /\ events' = events + 1
    /\ UNCHANGED <<facct, next_ticket, faults, tables, pc, idleLocals, history, lot>>
    /\ UNCHANGED enabled

MasterClose ==
    /\ pc = "idle" /\ events < MaxEvents
    /\ \E t \in DOMAIN master : master' = DictDel(master, t)
    /\ events' = events + 1
    /\ UNCHANGED <<facct, next_ticket, faults, tables, pc, idleLocals, history, lot>>
    /\ UNCHANGED enabled

\* The follower closes or cancels an order by hand.
FollowerManualClose ==
    /\ pc = "idle" /\ events < MaxEvents
    /\ \E f \in Followers : \E k \in DOMAIN facct[f] :
          facct' = [facct EXCEPT ![f] = DictDel(@, k)]
    /\ events' = events + 1
    /\ UNCHANGED <<master, next_ticket, faults, tables, pc, idleLocals, history, lot>>
    /\ UNCHANGED enabled

(***************************************************************************)
(* run_copy_cycle.                                                         *)
(***************************************************************************)
\* The list get_master_orders builds: pending orders, then positions.
OrderList(account) ==
    LET pending == {k \in DOMAIN account : ~IsPosition(account[k])}
        positions == {k \in DOMAIN account : IsPosition(account[k])}
        ks == SortedSeq(pending) \o SortedSeq(positions)
    IN  [i \in 1..Len(ks) |-> account[ks[i]]]

get_master_orders(connected) == IF connected THEN OrderList(master) ELSE <<>>

\* {order.ticket: order for order in master_orders}
StateOf(orders) ==
    [t \in {orders[i].ticket : i \in 1..Len(orders)} |->
        LET i == CHOOSE j \in 1..Len(orders) : orders[j].ticket = t IN orders[i]]

LogEntry(kind, f, ticket, master_ticket, ok, params) ==
    [kind |-> kind, follower |-> f, ticket |-> ticket,
     master_ticket |-> master_ticket, ok |-> ok, params |-> params]

\* Mutant: the state of the cycle before stays.
RetainPrevious(current_master_state) == last_master_state

\* current_master_state.copy(), what self.last_master_state becomes on both
\* ways out of the cycle (lines 887 and 919).
RetainedState(current_master_state) == current_master_state

\* Fetch the master snapshot and pass the change gate (lines 877-891).  A
\* failed connection to the master account is the first entry of the log.
StartCycle ==
    /\ pc = "idle"
    /\ \E connected \in Outcomes :
          LET orders == get_master_orders(connected)
              current_master_state == StateOf(orders)
          IN  /\ same_snapshot' = (current_master_state = last_master_state)
              /\ removed_now' = (DOMAIN last_master_state) \ (DOMAIN current_master_state)
              /\ faults' = Fault(connected)
              /\ IF ~_detect_master_changes(current_master_state, last_master_state)
                 THEN /\ last_master_state' = RetainedState(current_master_state)
                      /\ UNCHANGED <<pc, master_orders, fidx>>
                 ELSE /\ pc' = "follower"
                      /\ master_orders' = orders
                      /\ fidx' = 1
                      /\ UNCHANGED last_master_state
              /\ log' = IF connected THEN <<>>
                         ELSE <<LogEntry("master_connect_failed", 0, 0, 0, FALSE,
                                         EmptyDict)>>
    /\ prev_log' = log
    /\ UNCHANGED <<master, facct, next_ticket, events, follower_orders,
                   order_sync_status, manually_closed, f_orders, midx,
                   orders_to_close, cidx, lot>>
    /\ UNCHANGED enabled

\* The loop over self.follower_accounts is over (lines 918-919).
EndCycle ==
    /\ pc = "follower" /\ fidx > NumFollowers
    /\ last_master_state' = RetainedState(StateOf(master_orders))
    /\ pc' = "idle"
    /\ master_orders' = <<>>
    /\ fidx' = 0
    /\ UNCHANGED <<master, facct, next_ticket, events, faults, follower_orders,
                   order_sync_status, manually_closed, f_orders, midx,
                   orders_to_close, cidx, history, lot>>
    /\ UNCHANGED enabled

(***************************************************************************)
(* sync_orders_to_follower.                                                *)
(***************************************************************************)
\* Mutant: every order of the account is read, whatever its magic number.
UnfilteredSnapshot(f) == facct[f]

\* The follower's pending orders and positions with the configured magic.
FollowerSnapshot(f) ==
    LET own == {k \in DOMAIN facct[f] :
                   facct[f][k].magic = FollowerConfig(f).magic_number}
    IN  [k \in own |-> facct[f][k]]

\* Mutant: a follower pass that failed ends the loop over the followers.
StopOnFailure(i, ok) == IF ok THEN i + 1 ELSE NumFollowers + 1

\* The loop over self.follower_accounts goes on to the next follower however
\* sync_orders_to_follower came back (lines 896-898, 908-916).
NextFollower(i, ok) == i + 1

\* Mutant: the flag is not looked at.
EnabledWhatever(follower_config) == TRUE

\* follower_config.get('enabled', True), the test of both loops over
\* self.follower_accounts (lines 897 and 911).
IsEnabled(follower_config) == follower_config.enabled

\* The follower is disabled: the loop goes on to the next one without a call
\* of sync_orders_to_follower (lines 896-898, 910-913).
SyncSkipDisabled ==
    /\ pc = "follower" /\ fidx <= NumFollowers
    /\ ~IsEnabled(FollowerConfig(fidx))
    /\ fidx' = fidx + 1
    /\ log' = Append(log, LogEntry("disabled", fidx, 0, 0, TRUE, EmptyDict))
    /\ UNCHANGED <<master, facct, next_ticket, events, faults, tables, pc,
                   master_orders, f_orders, midx, orders_to_close, cidx, prev_log,
                   same_snapshot, removed_now, lot>>
    /\ UNCHANGED enabled

\* connect_account failed: return (lines 571-572).
SyncConnectFail ==
    /\ pc = "follower" /\ fidx <= NumFollowers
    /\ IsEnabled(FollowerConfig(fidx))
    /\ faults < MaxFaults
    /\ faults' = faults + 1
    /\ fidx' = NextFollower(fidx, FALSE)
    /\ log' = Append(log, LogEntry("connect_failed", fidx, 0, 0, FALSE, EmptyDict))
    /\ UNCHANGED <<master, facct, next_ticket, events, tables, pc, master_orders,
                   f_orders, midx, orders_to_close, cidx, prev_log, same_snapshot,
                   removed_now, lot>>
    /\ UNCHANGED enabled

\* Connected, but mt5.orders_get or mt5.positions_get raised: the handler of
\* sync_orders_to_follower logs the error and the pass is over (lines 603-604).
SyncSnapshotError ==
    /\ pc = "follower" /\ fidx <= NumFollowers
    /\ IsEnabled(FollowerConfig(fidx))
    /\ faults < MaxFaults
    /\ faults' = faults + 1
    /\ fidx' = NextFollower(fidx, FALSE)
    /\ log' = Append(log, LogEntry("sync_error", fidx, 0, 0, FALSE, EmptyDict))
    /\ UNCHANGED <<master, facct, next_ticket, events, tables, pc, master_orders,
                   f_orders, midx, orders_to_close, cidx, prev_log, same_snapshot,
                   removed_now, lot>>
    /\ UNCHANGED enabled

\* Connected: read the follower's own orders (lines 574-594).
SyncConnect ==
    /\ pc = "follower" /\ fidx <= NumFollowers
    /\ IsEnabled(FollowerConfig(fidx))
    /\ f_orders' = FollowerSnapshot(fidx)
    /\ midx' = 1
    /\ pc' = "process"
    /\ log' = Append(log, LogEntry("connected", fidx, 0, 0, TRUE, EmptyDict))
    /\ UNCHANGED <<master, facct, next_ticket, events, faults, tables, master_orders,
                   fidx, orders_to_close, cidx, prev_log, same_snapshot, removed_now,
                   lot>>
    /\ UNCHANGED enabled

(***************************************************************************)
(* _process_master_order, one action for each of its four outcomes.        *)
(***************************************************************************)
\* Mutant: the link table is not consulted.
NeverLinked(master_ticket, login) == FALSE

\* master_ticket in self.follower_orders and login in it (lines 613-614)
IsLinked(master_ticket, login) ==
    /\ master_ticket \in DOMAIN follower_orders
    /\ login \in DOMAIN follower_orders[master_ticket]

\* Mutant: the manual-close record is not consulted.
NeverManuallyClosed(master_ticket, login) == FALSE

\* the guard of lines 651-653
WasManuallyClosed(master_ticket, login) ==
    /\ master_ticket \in DOMAIN manually_closed
    /\ login \in manually_closed[master_ticket]

InProcess == pc = "process" /\ midx <= Len(master_orders)

processFrame == <<master, events, last_master_state, pc, master_orders, fidx,
                  f_orders, orders_to_close, cidx, prev_log, same_snapshot,
                  removed_now, lot>>

\* The copy exists on the follower: modification check when the master order
\* changed, then the status is set (lines 618-630).
ProcLinkedLive ==
    /\ InProcess
    /\ LET master_order == master_orders[midx]
           t == master_order.ticket
       IN  /\ IsLinked(t, fidx)
           /\ follower_orders[t][fidx] \in DOMAIN f_orders
           /\ LET follower_ticket == follower_orders[t][fidx]
                  params == IF _has_master_order_changed(master_order, last_master_state)
                            THEN _check_order_modifications(master_order,
                                                            f_orders[follower_ticket])
                            ELSE EmptyDict
              IN  IF DOMAIN params = {}
                  THEN UNCHANGED <<facct, log, faults>>
                  ELSE \E success \in Outcomes :
                         /\ faults' = Fault(success)
                         /\ log' = Append(log, LogEntry("modify", fidx, follower_ticket,
                                                        t, success, params))
                         /\ facct' = IF success
                                     THEN [facct EXCEPT ![fidx][follower_ticket] =
                                              ModifyEffect(@, params)]
                                     ELSE facct
           /\ order_sync_status' =
                 DictPut(order_sync_status, t,
                         DictPut(DictGet(order_sync_status, t, EmptyDict), fidx, "synced"))
    /\ midx' = midx + 1
    /\ UNCHANGED <<next_ticket, follower_orders, manually_closed, processFrame>>
    /\ UNCHANGED enabled

\* Mutant: the record of a ticket keeps only the follower marked last.
MarkOnlyLast(record, master_ticket, login) == DictPut(record, master_ticket, {login})

\* Mutant: the manual close is not recorded.
MarkNothing(record, master_ticket, login) == record

\* self.manually_closed after marking the pair (lines 635-638).
MarkManuallyClosed(record, master_ticket, login) ==
    DictPut(record, master_ticket, DictGet(record, master_ticket, {}) \cup {login})

\* The linked follower ticket is gone: manual close (lines 631-648).
ProcManualClose ==
    /\ InProcess
    /\ LET t == master_orders[midx].ticket
       IN  /\ IsLinked(t, fidx)
           /\ follower_orders[t][fidx] \notin DOMAIN f_orders
           /\ manually_closed' = MarkManuallyClosed(manually_closed, t, fidx)
           /\ LET links == DictDel(follower_orders[t], fidx)
                  status1 == IF t \in DOMAIN order_sync_status
                             THEN DictPut(order_sync_status, t,
                                          DictDel(order_sync_status[t], fidx))
                             ELSE order_sync_status
              IN  IF DOMAIN links = {}
                  THEN /\ follower_orders' = DictDel(follower_orders, t)
                       /\ order_sync_status' = DictDel(status1, t)
                  ELSE /\ follower_orders' = DictPut(follower_orders, t, links)
                       /\ order_sync_status' = status1
           /\ log' = Append(log, LogEntry("manual_close", fidx, 0, t, TRUE, EmptyDict))
    /\ midx' = midx + 1
    /\ UNCHANGED <<facct, next_ticket, faults, processFrame>>
    /\ UNCHANGED enabled

\* Not linked, closed by hand before: not copied again (lines 651-653).
ProcSkipManual ==
    /\ InProcess
    /\ LET t == master_orders[midx].ticket
       IN  /\ ~IsLinked(t, fidx)
           /\ WasManuallyClosed(t, fidx)
           /\ log' = Append(log, LogEntry("skip_manual", fidx, 0, t, TRUE, EmptyDict))
    /\ midx' = midx + 1
    /\ UNCHANGED <<facct, next_ticket, faults, follower_orders, order_sync_status,
                   manually_closed, processFrame>>
    /\ UNCHANGED enabled

\* Mutant: the copy is sent with the master's own volume and without its
\* stop-loss and take-profit.
RequestWithoutStops(master_order, f, sym_info) ==
    [symbol     |-> DictGet(FollowerConfig(f).symbol_mapping, master_order.symbol,
                            master_order.symbol),
     order_type |-> master_order.order_type,
     volume     |-> Frac(master_order.volume, 1),
     price      |-> master_order.price,
     sl         |-> 0,
     tp         |-> 0,
     comment    |-> <<"Copy:", master_order.ticket>>,
     magic      |-> FollowerConfig(f).magic_number]

\* The request _copy_new_order hands to send_order (lines 712-735).
CreateRequest(master_order, f, sym_info) ==
    [symbol     |-> map_symbol(master_order.symbol, FollowerConfig(f)),
     order_type |-> master_order.order_type,
     volume     |-> calculate_lot_size(master_order.volume, FollowerConfig(f),
                                       AccountInfo, sym_info, sym_info),
     price      |-> master_order.price,
     sl         |-> master_order.sl,
     tp         |-> master_order.tp,
     comment    |-> CopyComment(master_order.ticket),
     magic      |-> FollowerConfig(f).magic_number]

\* The price the terminal opens at: the requested price of a pending order,
\* the tick price of a market order (send_order, lines 317-323).
FillPrices(request) ==
    IF request.order_type \in {ORDER_TYPE_BUY, ORDER_TYPE_SELL}
    THEN {request.price, request.price + Tol + 1}
    ELSE {request.price}

\* Mutant: the terminal answers every create with the same ticket.
SameTicket(f) == 1

\* result.order of a confirmed create: a ticket the follower's terminal has
\* not handed out before (send_order, lines 353-367).
OrderTicket(f) == next_ticket[f]

\* Not linked and not closed by hand: _copy_new_order (lines 655-657, 706-747).
ProcCopyNew ==
    /\ InProcess
    /\ LET master_order == master_orders[midx]
           t == master_order.ticket
       IN  /\ ~IsLinked(t, fidx)
           /\ ~WasManuallyClosed(t, fidx)
           /\ \/ \* get_symbol_info gives nothing: skipped (lines 715-717)
                 /\ faults < MaxFaults
                 /\ faults' = faults + 1
                 /\ log' = Append(log, LogEntry("no_symbol", fidx, 0, t, FALSE, EmptyDict))
                 /\ UNCHANGED <<facct, next_ticket, follower_orders>>
              \/ \* send_order returns None
                 /\ faults < MaxFaults
                 /\ faults' = faults + 1
                 /\ log' = Append(log, LogEntry("create", fidx, 0, t, FALSE,
                                                CreateRequest(master_order, fidx, SymbolInfo)))
                 /\ UNCHANGED <<facct, next_ticket, follower_orders>>
              \/ \* send_order returns the new ticket
                 LET request == CreateRequest(master_order, fidx, SymbolInfo)
                     follower_ticket == OrderTicket(fidx)
                 IN  \E fill \in FillPrices(request) :
                        /\ facct' = [facct EXCEPT ![fidx] =
                              DictPut(@, follower_ticket,
                                  [ticket |-> follower_ticket, symbol |-> request.symbol,
                                   order_type |-> request.order_type,
                                   volume |-> request.volume, price_open |-> fill,
                                   sl |-> request.sl, tp |-> request.tp,
                                   magic |-> request.magic, comment |-> request.comment])]
                        /\ next_ticket' = [next_ticket EXCEPT ![fidx] = @ + 1]
                        /\ follower_orders' =
                              DictPut(follower_orders, t,
                                      DictPut(DictGet(follower_orders, t, EmptyDict),
                                              fidx, follower_ticket))
                        /\ log' = Append(log, LogEntry("create", fidx, follower_ticket, t,
                                                       TRUE, request))
                        /\ UNCHANGED faults
    /\ midx' = midx + 1
    /\ UNCHANGED <<order_sync_status, manually_closed, processFrame>>
    /\ UNCHANGED enabled

(***************************************************************************)
(* _cleanup_orphaned_orders.                                               *)
(***************************************************************************)
\* The order the local dict follower_orders is walked in.
SnapshotList(snapshot) ==
    LET pending == {k \in DOMAIN snapshot : ~IsPosition(snapshot[k])}
        positions == {k \in DOMAIN snapshot : IsPosition(snapshot[k])}
    IN  SortedSeq(pending) \o SortedSeq(positions)

\* Mutant: the comments of the follower's orders are not looked at.
NoCleanupByComment(master_tickets, snapshot, magic) == <<>>

\* Method 1: orders whose comment names a master ticket that is gone (lines 812-826).
CleanupByComment(master_tickets, snapshot, magic) ==
    LET Orphan(k) == /\ snapshot[k].magic = magic
                     /\ CommentTicket(snapshot[k].comment) # 0
                     /\ CommentTicket(snapshot[k].comment) \notin master_tickets
        ks == SelectSeq(SnapshotList(snapshot), Orphan)
    IN  [i \in 1..Len(ks) |->
            [ticket |-> ks[i], master_ticket |-> CommentTicket(snapshot[ks[i]].comment)]]

\* Mutant: every link of the follower is taken, its master ticket gone or not.
CleanupEveryLink(master_tickets, snapshot, login) ==
    LET Mine(mt) == /\ login \in DOMAIN follower_orders[mt]
                    /\ follower_orders[mt][login] \in DOMAIN snapshot
        mts == SelectSeq(SortedSeq(DOMAIN follower_orders), Mine)
    IN  [i \in 1..Len(mts) |->
            [ticket |-> follower_orders[mts[i]][login], master_ticket |-> mts[i]]]

\* Method 2: links whose master ticket is gone (lines 828-836).
CleanupByLink(master_tickets, snapshot, login) ==
    LET Orphan(mt) == /\ mt \notin master_tickets
                      /\ login \in DOMAIN follower_orders[mt]
                      /\ follower_orders[mt][login] \in DOMAIN snapshot
        mts == SelectSeq(SortedSeq(DOMAIN follower_orders), Orphan)
    IN  [i \in 1..Len(mts) |->
            [ticket |-> follower_orders[mts[i]][login], master_ticket |-> mts[i]]]

OrdersToClose(master_tickets, snapshot, login, magic) ==
    CleanupByComment(master_tickets, snapshot, magic)
        \o CleanupByLink(master_tickets, snapshot, login)

\* All master orders processed: build the list of orders to close.
BuildCleanup ==
    /\ pc = "process" /\ midx > Len(master_orders)
    /\ orders_to_close' =
          OrdersToClose({master_orders[i].ticket : i \in 1..Len(master_orders)},
                        f_orders, fidx, FollowerConfig(fidx).magic_number)
    /\ cidx' = 1
    /\ pc' = "cleanup"
    /\ UNCHANGED <<master, facct, next_ticket, events, faults, tables, master_orders,
                   fidx, f_orders, midx, history, lot>>
    /\ UNCHANGED enabled

\* self.follower_orders after a confirmed close or cancel (lines 859-866).
UnlinkAfterCleanup(links, master_ticket, login) ==
    IF master_ticket \in DOMAIN links
    THEN LET rest == DictDel(links[master_ticket], login)
         IN  IF DOMAIN rest = {} THEN DictDel(links, master_ticket)
             ELSE DictPut(links, master_ticket, rest)
    ELSE links

\* Mutant: every orphan is treated as a position.
AlwaysClose(order) == "close"

\* Which call the loop makes for an orphan: close_position for a position,
\* cancel_order for a pending order (lines 843-849).
CleanupRequestKind(order) ==
    IF order.order_type \in {ORDER_TYPE_BUY, ORDER_TYPE_SELL} THEN "close" ELSE "cancel"

\* One turn of the loop of lines 839-866: close a position, cancel a pending order.
CleanupStep ==
    /\ pc = "cleanup" /\ cidx <= Len(orders_to_close)
    /\ LET e == orders_to_close[cidx]
           order == f_orders[e.ticket]
           kind == CleanupRequestKind(order)
           live == e.ticket \in DOMAIN facct[fidx]
       IN  \E success \in (IF live THEN Outcomes ELSE {FALSE}) :
              /\ faults' = IF live THEN Fault(success) ELSE faults
              /\ log' = Append(log, LogEntry(kind, fidx, e.ticket, e.master_ticket,
                                             success, EmptyDict))
              /\ facct' = IF success THEN [facct EXCEPT ![fidx] = DictDel(@, e.ticket)]
                          ELSE facct
              /\ follower_orders' =
                    IF success
                    THEN UnlinkAfterCleanup(follower_orders, e.master_ticket, fidx)
                    ELSE follower_orders
    /\ cidx' = cidx + 1
    /\ UNCHANGED <<master, next_ticket, events, last_master_state, order_sync_status,
                   manually_closed, pc, master_orders, fidx, f_orders, midx,
                   orders_to_close, prev_log, same_snapshot, removed_now, lot>>
    /\ UNCHANGED enabled

\* The follower's pass is over: next follower.
CleanupDone ==
    /\ pc = "cleanup" /\ cidx > Len(orders_to_close)
    /\ pc' = "follower"
    /\ fidx' = NextFollower(fidx, TRUE)
    /\ f_orders' = EmptyDict
    /\ midx' = 0
    /\ orders_to_close' = <<>>
    /\ cidx' = 0
    /\ UNCHANGED <<master, facct, next_ticket, events, faults, tables, master_orders,
                   history, lot>>
    /\ UNCHANGED enabled

(***************************************************************************)
(* The engine with its environment.                                        *)
(***************************************************************************)
NoLot == [phase |-> "off"]

EngineInit ==
    /\ enabled = AllEnabled
    /\ master = EmptyDict
    /\ facct = [f \in Followers |-> EmptyDict]
    /\ next_ticket = [a \in 0..NumFollowers |-> 1]
    /\ events = 0
    /\ faults = 0
    /\ follower_orders = EmptyDict
    /\ last_master_state = EmptyDict
    /\ order_sync_status = EmptyDict
    /\ manually_closed = EmptyDict
    /\ pc = "idle"
    /\ master_orders = <<>>
    /\ fidx = 0
    /\ f_orders = EmptyDict
    /\ midx = 0
    /\ orders_to_close = <<>>
    /\ cidx = 0
    /\ log = <<>>
    /\ prev_log = <<>>
    /\ same_snapshot = FALSE
    /\ removed_now = {}

Init == EngineInit /\ lot = NoLot

Next ==
    \/ MasterOpen
    \/ MasterModify
    \/ MasterClose
    \/ FollowerManualClose
    \/ StartCycle
    \/ SyncConnectFail
    \/ SyncSnapshotError
    \/ SyncConnect
    \/ ProcLinkedLive
    \/ ProcManualClose
    \/ ProcSkipManual
    \/ ProcCopyNew
    \/ BuildCleanup
    \/ CleanupStep
    \/ CleanupDone
    \/ EndCycle

Spec == Init /\ [][Next]_vars

(***************************************************************************)
(* calculate_lot_size on its own: the inputs are drawn, the call is made.  *)
(***************************************************************************)
LotInputs ==
    [lot_calculation : {"fixed", "multiplier", "percent_balance", "risk_based"},
     lot_value       : {1, 50, 200},
     master_volume   : {1, 10, 100},
     min_lot         : {1, 10},
     max_lot         : {100, 106},
     volume_step     : {1, 10},
     contract        : {0, 10},
     account_ok      : BOOLEAN,
     sym_calc_ok     : BOOLEAN,
     sym_round_ok    : BOOLEAN]

LotSymbolInfo(in, ok) ==
    IF ok THEN [avail |-> TRUE, trade_contract_size |-> in.contract,
                trade_tick_value |-> 10, volume_step |-> in.volume_step]
    ELSE NoSymbolInfo

InitLot ==
    /\ EngineInit
    /\ \E in \in LotInputs : lot = [phase |-> "in", input |-> in, result |-> Frac(0, 1),
                                     calculated |-> Frac(0, 1)]

CalcLot ==
    /\ lot.phase = "in"
    /\ LET in == lot.input
           cfg == [lot_calculation |-> in.lot_calculation,
                   lot_value |-> in.lot_value,
                   min_lot |-> in.min_lot, max_lot |-> in.max_lot]
           account_info == [avail |-> in.account_ok, balance |-> 1000]
       IN  lot' = [lot EXCEPT
                     !.phase = "out",
                     !.result = calculate_lot_size(
                                    in.master_volume, cfg, account_info,
                                    LotSymbolInfo(in, in.sym_calc_ok),
                                    LotSymbolInfo(in, in.sym_round_ok)),
                     \* calculated_lot as it stands before line 257
                     !.calculated = RawLot(in.master_volume, cfg, account_info,
                                           LotSymbolInfo(in, in.sym_calc_ok)).v]
    /\ UNCHANGED <<master, facct, next_ticket, events, faults, tables, pc, idleLocals,
                   history>>
    /\ UNCHANGED enabled

NextLot == CalcLot

SpecLot == InitLot /\ [][NextLot]_vars

(***************************************************************************)
(* map_symbol on its own: the master symbol and the follower's mapping     *)
(* table are drawn, the call is made.                                      *)
(***************************************************************************)
MapInputs ==
    [master_symbol  : {"EURUSD", "eurusd", "GBPUSD", "EURUSD.m"},
     symbol_mapping : UNION {[S -> {"EURUSD.m", "XAUUSD"}] :
                                S \in SUBSET {"EURUSD", "eurusd", "GBPUSD"}}]

InitMap ==
    /\ EngineInit
    /\ \E in \in MapInputs : lot = [phase |-> "map_in", input |-> in, result |-> ""]

MapSymbol ==
    /\ lot.phase = "map_in"
    /\ lot' = [lot EXCEPT
                 !.phase = "map_out",
                 !.result = map_symbol(lot.input.master_symbol,
                                       [symbol_mapping |-> lot.input.symbol_mapping])]
    /\ UNCHANGED <<master, facct, next_ticket, events, faults, tables, pc, idleLocals,
                   history>>
    /\ UNCHANGED enabled

NextMap == MapSymbol

SpecMap == InitMap /\ [][NextMap]_vars

(***************************************************************************)
(* The modification check on its own: follower 1 is connected in a cycle   *)
(* that passed the change gate, master ticket 1 is linked to follower      *)
(* ticket 1, and _process_master_order is about to run for it.  The fields *)
(* of the two orders are drawn, a step of Tol/2 apart.                     *)
(***************************************************************************)
ModMasterOrders ==
    {[ticket |-> 1, symbol |-> MasterSymbol, order_type |-> ty, volume |-> 100,
      price |-> BasePrice + p, sl |-> a, tp |-> b] :
        ty \in {ORDER_TYPE_BUY, ORDER_TYPE_BUY_LIMIT}, p \in Levels, a \in Levels,
        b \in Levels}

ModFollowerOrders(mo) ==
    {[ticket |-> 1, symbol |-> MasterSymbol, order_type |-> mo.order_type,
      volume |-> Frac(50, 1), price_open |-> BasePrice + p, sl |-> a, tp |-> b,
      magic |-> FollowerConfig(1).magic_number, comment |-> CopyComment(1)] :
        p \in FineLevels, a \in FineLevels, b \in FineLevels}

\* The previous snapshot: none, ticket 1 with another stop-loss, or ticket 1
\* as it is now beside a ticket 2 that has gone since.
ModLastStates(mo) ==
    {EmptyDict,
     [t \in {1} |-> [mo EXCEPT !.sl = Tol + 1 - mo.sl]],
     [t \in {1, 2} |-> IF t = 1 THEN mo ELSE [mo EXCEPT !.ticket = 2]]}

InitMod ==
    /\ enabled = AllEnabled
    /\ \E mo \in ModMasterOrders : \E fo \in ModFollowerOrders(mo) :
       \E last \in ModLastStates(mo) :
        /\ master = [t \in {1} |-> mo]
        /\ facct = [f \in Followers |-> IF f = 1 THEN [k \in {1} |-> fo] ELSE EmptyDict]
        /\ next_ticket = [a \in 0..NumFollowers |-> IF a = 0 THEN 3 ELSE IF a = 1 THEN 2 ELSE 1]
        /\ events = 0
        /\ faults = 0
        /\ follower_orders = [t \in {1} |-> [f \in {1} |-> 1]]
        /\ last_master_state = last
        /\ order_sync_status = EmptyDict
        /\ manually_closed = EmptyDict
        /\ pc = "process"
        /\ master_orders = <<mo>>
        /\ fidx = 1
        /\ f_orders = [k \in {1} |-> fo]
        /\ midx = 1
        /\ orders_to_close = <<>>
        /\ cidx = 0
        /\ log = <<LogEntry("connected", 1, 0, 0, TRUE, EmptyDict)>>
        /\ prev_log = <<>>
        /\ same_snapshot = FALSE
        /\ removed_now = (DOMAIN last) \ {1}
        /\ lot = NoLot

NextMod == ProcLinkedLive

SpecMod == InitMod /\ [][NextMod]_vars

(***************************************************************************)
(* The engine after a cycle in which the session with the master account   *)
(* failed.  Before it the master opened ticket 1, both followers got their *)
(* copy, the master moved the stop-loss and both copies followed (status   *)
(* synced), and one follower, g, closed its copy by hand.  The cycle of    *)
(* the outage saw an empty master snapshot: it removed the other           *)
(* follower's copy and its link and left g's link, whose order is gone, in *)
(* the table (lines 828-836).  faults counts the failures from here on.    *)
(***************************************************************************)
InitOutage ==
    /\ enabled = AllEnabled
    /\ \E ty \in {ORDER_TYPE_BUY, ORDER_TYPE_BUY_LIMIT}, g \in {1, 2} :
          /\ master = [t \in {1} |-> [ticket |-> 1, symbol |-> MasterSymbol,
                                      order_type |-> ty, volume |-> 100,
                                      price |-> BasePrice, sl |-> Tol + 1, tp |-> 0]]
          /\ log = <<LogEntry("master_connect_failed", 0, 0, 0, FALSE, EmptyDict),
                     LogEntry("connected", 1, 0, 0, TRUE, EmptyDict),
                     LogEntry("connected", 2, 0, 0, TRUE, EmptyDict),
                     LogEntry(IF ty = ORDER_TYPE_BUY THEN "close" ELSE "cancel",
                              3 - g, 1, 1, TRUE, EmptyDict),
                     LogEntry(IF ty = ORDER_TYPE_BUY THEN "close" ELSE "cancel",
                              3 - g, 1, 1, FALSE, EmptyDict)>>
          /\ follower_orders = [t \in {1} |-> [f \in {g} |-> 1]]
    /\ facct = [f \in Followers |-> EmptyDict]
    /\ next_ticket = [a \in 0..NumFollowers |-> 2]
    /\ events = MaxEvents - 1
    /\ faults = MaxFaults - 1
    /\ last_master_state = EmptyDict
    /\ order_sync_status = [t \in {1} |-> [f \in {1, 2} |-> "synced"]]
    /\ manually_closed = EmptyDict
    /\ pc = "idle"
    /\ master_orders = <<>>
    /\ fidx = 0
    /\ f_orders = EmptyDict
    /\ midx = 0
    /\ orders_to_close = <<>>
    /\ cidx = 0
    /\ prev_log = <<>>
    /\ same_snapshot = FALSE
    /\ removed_now = {1}
    /\ lot = NoLot

NextOutage ==
    \/ MasterOpen
    \/ MasterModify
    \/ MasterClose
    \/ FollowerManualClose
    \/ StartCycle
    \/ SyncConnectFail
    \/ SyncSnapshotError
    \/ SyncConnect
    \/ ProcLinkedLive
    \/ ProcManualClose
    \/ ProcSkipManual
    \/ ProcCopyNew
    \/ BuildCleanup
    \/ CleanupStep
    \/ CleanupDone
    \/ EndCycle

SpecOutage == InitOutage /\ [][NextOutage]_vars

(***************************************************************************)
(* The engine started anew: the tables are empty (__init__, lines 85-89)   *)
(* while the accounts hold orders from before.  The master holds ticket 1; *)
(* its ticket 2 is gone.  A follower holds any of: the copy of ticket 1    *)
(* and the copy of ticket 2 of an earlier run, and an order that is not    *)
(* the engine's (magic 0), with or without a Copy: comment.  The master    *)
(* account may change once; the followers leave their orders alone.        *)
(***************************************************************************)
RestartOrder(f, k, ty, magic, comment) ==
    [ticket |-> k, symbol |-> map_symbol(MasterSymbol, FollowerConfig(f)),
     order_type |-> ty, volume |-> Frac(10, 1), price_open |-> BasePrice,
     sl |-> 0, tp |-> 0, magic |-> magic, comment |-> comment]

RestartAccounts(f) ==
    {[k \in S |-> CASE k = 1 -> RestartOrder(f, k, ty, FollowerConfig(f).magic_number,
                                             CopyComment(1))
                    [] k = 2 -> RestartOrder(f, k, ty, FollowerConfig(f).magic_number,
                                             CopyComment(2))
                    [] OTHER -> RestartOrder(f, k, ty, 0, foreign_comment)] :
        S \in SUBSET {1, 2, 3}, ty \in {ORDER_TYPE_BUY, ORDER_TYPE_BUY_LIMIT},
        foreign_comment \in {CopyComment(2), <<>>}}

InitRestart ==
    /\ enabled = AllEnabled
    /\ \E ty \in {ORDER_TYPE_BUY, ORDER_TYPE_BUY_LIMIT} :
          master = [t \in {1} |-> [ticket |-> 1, symbol |-> MasterSymbol,
                                   order_type |-> ty, volume |-> 100,
                                   price |-> BasePrice, sl |-> 0, tp |-> 0]]
    /\ facct \in [Followers -> UNION {RestartAccounts(f) : f \in Followers}]
    /\ \A f \in Followers : facct[f] \in RestartAccounts(f)
    /\ next_ticket = [a \in 0..NumFollowers |-> IF a = 0 THEN 3 ELSE 4]
    /\ events = MaxEvents - 1
    /\ faults = 0
    /\ follower_orders = EmptyDict
    /\ last_master_state = EmptyDict
    /\ order_sync_status = EmptyDict
    /\ manually_closed = EmptyDict
    /\ pc = "idle"
    /\ master_orders = <<>>
    /\ fidx = 0
    /\ f_orders = EmptyDict
    /\ midx = 0
    /\ orders_to_close = <<>>
    /\ cidx = 0
    /\ log = <<>>
    /\ prev_log = <<>>
    /\ same_snapshot = FALSE
    /\ removed_now = {}
    /\ lot = NoLot

NextRestart ==
    \/ MasterModify
    \/ MasterClose
    \/ StartCycle
    \/ SyncConnectFail
    \/ SyncSnapshotError
    \/ SyncConnect
    \/ ProcLinkedLive
    \/ ProcCopyNew
    \/ BuildCleanup
    \/ CleanupStep
    \/ CleanupDone
    \/ EndCycle

SpecRestart == InitRestart /\ [][NextRestart]_vars

(***************************************************************************)
(* The engine started with at least one follower disabled in the           *)
(* configuration.  The master's ticket 1 of an earlier run is gone.  The   *)
(* account of a disabled follower holds nothing or its copy of ticket 1    *)
(* from that run, an order an enabled follower would have cancelled.       *)
(***************************************************************************)
InitDisabled ==
    /\ enabled \in [Followers -> BOOLEAN]
    /\ \E f \in Followers : ~enabled[f]
    /\ master = EmptyDict
    /\ facct \in [Followers ->
                     {EmptyDict} \cup
                     {[k \in {1} |-> RestartOrder(f, 1, ORDER_TYPE_BUY_LIMIT,
                                                  FollowerConfig(f).magic_number,
                                                  CopyComment(1))] : f \in Followers}]
    /\ \A f \in Followers :
          /\ enabled[f] => facct[f] = EmptyDict
          /\ \A k \in DOMAIN facct[f] :
                facct[f][k].magic = FollowerConfig(f).magic_number
    /\ next_ticket = [a \in 0..NumFollowers |-> 2]
    /\ events = 0
    /\ faults = 0
    /\ follower_orders = EmptyDict
    /\ last_master_state = EmptyDict
    /\ order_sync_status = EmptyDict
    /\ manually_closed = EmptyDict
    /\ pc = "idle"
    /\ master_orders = <<>>
    /\ fidx = 0
    /\ f_orders = EmptyDict
    /\ midx = 0
    /\ orders_to_close = <<>>
    /\ cidx = 0
    /\ log = <<>>
    /\ prev_log = <<>>
    /\ same_snapshot = FALSE
    /\ removed_now = {}
    /\ lot = NoLot

NextDisabled ==
    \/ MasterOpen
    \/ MasterModify
    \/ MasterClose
    \/ FollowerManualClose
    \/ StartCycle
    \/ SyncSkipDisabled
    \/ SyncConnectFail
    \/ SyncSnapshotError
    \/ SyncConnect
    \/ ProcLinkedLive
    \/ ProcManualClose
    \/ ProcSkipManual
    \/ ProcCopyNew
    \/ BuildCleanup
    \/ CleanupStep
    \/ CleanupDone
    \/ EndCycle

SpecDisabled == InitDisabled /\ [][NextDisabled]_vars

(***************************************************************************)
(* The change detector on its own: the master account and the snapshot of  *)
(* the cycle before are drawn, a cycle has run before, and run_copy_cycle  *)
(* fetches the snapshot and applies the detector.  Ticket 1 varies in its  *)
(* price, stop-loss, take-profit (equal, the tolerance apart, more than    *)
(* the tolerance apart) and volume; ticket 2 is there or not.              *)
(***************************************************************************)
DetectSnapshots ==
    LET o1 == {[ticket |-> 1, symbol |-> MasterSymbol, order_type |-> ORDER_TYPE_BUY_LIMIT,
                volume |-> v, price |-> BasePrice + p, sl |-> a, tp |-> b] :
                  v \in {100, 101}, p \in {0, Tol, Tol + 1},
                  a \in {0, Tol, Tol + 1}, b \in {0, Tol + 1}}
        o2 == [ticket |-> 2, symbol |-> MasterSymbol, order_type |-> ORDER_TYPE_BUY,
               volume |-> 100, price |-> BasePrice, sl |-> 0, tp |-> 0]
    IN  {EmptyDict, [t \in {2} |-> o2]}
          \cup {[t \in {1} |-> o] : o \in o1}
          \cup {[t \in {1, 2} |-> IF t = 1 THEN o ELSE o2] : o \in o1}

InitDetect ==
    /\ enabled = AllEnabled
    /\ master \in DetectSnapshots
    /\ last_master_state \in DetectSnapshots
    /\ facct = [f \in Followers |-> EmptyDict]
    /\ next_ticket = [a \in 0..NumFollowers |-> IF a = 0 THEN 3 ELSE 1]
    /\ events = 0
    /\ faults = 0
    /\ follower_orders = EmptyDict
    /\ order_sync_status = EmptyDict
    /\ manually_closed = EmptyDict
    /\ pc = "idle"
    /\ master_orders = <<>>
    /\ fidx = 0
    /\ f_orders = EmptyDict
    /\ midx = 0
    /\ orders_to_close = <<>>
    /\ cidx = 0
    /\ log = <<LogEntry("connected", 1, 0, 0, TRUE, EmptyDict)>>
    /\ prev_log = <<>>
    /\ same_snapshot = FALSE
    /\ removed_now = {}
    /\ lot = NoLot

NextDetect == StartCycle

SpecDetect == InitDetect /\ [][NextDetect]_vars

(***************************************************************************)
(* Properties.                                                             *)
(***************************************************************************)
RequestKinds == {"create", "modify", "close", "cancel"}

Requests(l) == {i \in 1..Len(l) : l[i].kind \in RequestKinds}

\* The step adds an entry of this kind for the pair to the log of the cycle.
NewEntry(kind, t, f) ==
    /\ Len(log') = Len(log) + 1
    /\ log'[Len(log')].kind = kind
    /\ log'[Len(log')].master_ticket = t
    /\ log'[Len(log')].follower = f

\* C1: a cycle whose master snapshot is identical to the previous one issues
\* no create, modify, close or cancel request, whatever the followers and
\* the link tables hold.
C1_UnchangedSnapshotNoRequests == same_snapshot => Requests(log) = {}

\* C1 witness: an unchanged cycle has run although a pair of a master ticket
\* of the snapshot is still without copy.
C1_Witness ==
    /\ same_snapshot /\ pc = "idle" /\ prev_log # <<>>
    /\ \E t \in DOMAIN last_master_state : \E f \in Followers :
          /\ ~(t \in DOMAIN follower_orders /\ f \in DOMAIN follower_orders[t])
          /\ ~(t \in DOMAIN manually_closed /\ f \in manually_closed[t])

\* C2: once follower f is in the manual-close record of master ticket t, no
\* step issues a create request for the pair (t, f).
C2_StickyManualClose ==
    [][\A t \in DOMAIN manually_closed : \A f \in manually_closed[t] :
          ~NewEntry("create", t, f)]_vars

\* C2 witness: a master ticket of the snapshot was processed for a follower
\* recorded as having closed it by hand, and was skipped.
C2_Witness ==
    \E i \in 1..Len(log) :
        /\ log[i].kind = "skip_manual"
        /\ log[i].master_ticket \in DOMAIN manually_closed
        /\ log[i].follower \in manually_closed[log[i].master_ticket]
        /\ log[i].master_ticket \in {master_orders[j].ticket : j \in 1..Len(master_orders)}

\* Master ticket t is gone from the master account, every follower was
\* connected and read in the cycle, close or cancel requests were sent for t and all
\* reached their order: each ticket asked for has a confirmed request.
CleanupConfirmed(t) ==
    /\ t \notin DOMAIN master
    /\ \A i \in 1..Len(log) : log[i].kind \notin {"connect_failed", "sync_error"}
    /\ \E i \in 1..Len(log) :
          log[i].kind \in {"close", "cancel"} /\ log[i].master_ticket = t
    /\ \A i \in 1..Len(log) :
          (log[i].kind \in {"close", "cancel"} /\ log[i].master_ticket = t)
              => \E j \in 1..Len(log) :
                    /\ log[j].kind \in {"close", "cancel"}
                    /\ log[j].follower = log[i].follower
                    /\ log[j].ticket = log[i].ticket
                    /\ log[j].ok

\* C3: when master ticket t was in the previous snapshot and is absent from
\* this one, then at the end of the cycle, the close and cancel requests sent
\* for it having succeeded, no entry for t remains in the link table, in the
\* status table or in the manual-close record.
C3_RemovedTicketPurged ==
    (pc = "idle" /\ log # <<>>) =>
        \A t \in removed_now :
            CleanupConfirmed(t) =>
                /\ t \notin DOMAIN follower_orders
                /\ t \notin DOMAIN order_sync_status
                /\ t \notin DOMAIN manually_closed

\* C4: within one cycle at most one modify, close or cancel request is sent
\* for any follower ticket.
C4_OneRequestPerFollowerTicket ==
    \A i, j \in 1..Len(log) :
        (/\ i < j
         /\ log[i].kind \in {"modify", "close", "cancel"}
         /\ log[j].kind \in {"modify", "close", "cancel"}
         /\ log[i].follower = log[j].follower)
            => log[i].ticket # log[j].ticket

\* C5: a create request is issued for a pair only when the pair has no link
\* entry, so that a pair never holds a second linked follower ticket.
C5_CreateOnlyWhenUnlinked ==
    [][\A t \in DOMAIN follower_orders : \A f \in DOMAIN follower_orders[t] :
          ~NewEntry("create", t, f)]_vars

\* C5 witness: a linked pair went through _process_master_order again and
\* kept its one follower ticket.
C5_Witness ==
    \E t \in DOMAIN follower_orders : \E f \in DOMAIN follower_orders[t] :
        /\ t \in DOMAIN order_sync_status
        /\ f \in DOMAIN order_sync_status[t]
        /\ \E i \in 1..Len(log) :
              /\ log[i].kind = "modify" /\ log[i].master_ticket = t
              /\ log[i].follower = f /\ log[i].ticket = follower_orders[t][f]

\* C6: a rejected create, modify, close or cancel request leaves the link
\* table and the status table as they were.
C6_RejectedLeavesTables ==
    [][(/\ Len(log') = Len(log) + 1
        /\ log'[Len(log')].kind \in RequestKinds
        /\ ~log'[Len(log')].ok)
          => /\ follower_orders' = follower_orders
             /\ order_sync_status' = order_sync_status]_vars

\* The create requests of a cycle's log that were rejected, as pairs.
FailedCreates(l) ==
    {<<l[i].master_ticket, l[i].follower>> :
        i \in {j \in 1..Len(l) : l[j].kind = "create" /\ ~l[j].ok}}

\* C7: a pair whose create request failed in the previous cycle, its master
\* ticket still in the snapshot, is still unlinked and is sent a create
\* request again in this cycle.
C7_FailedCreateRetried ==
    pc = "idle" =>
        \A p \in FailedCreates(prev_log) :
            p[1] \in DOMAIN last_master_state =>
                \E i \in 1..Len(log) :
                    /\ log[i].kind = "create"
                    /\ log[i].master_ticket = p[1]
                    /\ log[i].follower = p[2]

\* The condition that made the engine send the rejected request still holds:
\* the order is live on the follower and, for a modify, the pair is linked,
\* the master ticket in the snapshot and a field apart by more than the
\* tolerance; for a close or cancel, the master ticket is absent.
StillDue(r) ==
    /\ r.ticket \in DOMAIN facct[r.follower]
    /\ IF r.kind = "modify"
       THEN /\ r.master_ticket \in DOMAIN last_master_state
            /\ r.master_ticket \in DOMAIN follower_orders
            /\ r.follower \in DOMAIN follower_orders[r.master_ticket]
            /\ follower_orders[r.master_ticket][r.follower] = r.ticket
            /\ LET m == last_master_state[r.master_ticket]
                   o == facct[r.follower][r.ticket]
               IN  \/ Abs(m.sl - o.sl) > Tol
                   \/ Abs(m.tp - o.tp) > Tol
                   \/ (~IsPosition(o) /\ Abs(m.price - o.price_open) > Tol)
       ELSE r.master_ticket \notin DOMAIN last_master_state

\* C8: a modify, close or cancel request rejected in the previous cycle is
\* sent again in this cycle while the condition that caused it still holds.
C8_RejectedRequestRetried ==
    pc = "idle" =>
        \A i \in 1..Len(prev_log) :
            (/\ prev_log[i].kind \in {"modify", "close", "cancel"}
             /\ ~prev_log[i].ok
             /\ StillDue(prev_log[i]))
                => \E j \in 1..Len(log) :
                      /\ log[j].kind = prev_log[i].kind
                      /\ log[j].follower = prev_log[i].follower
                      /\ log[j].ticket = prev_log[i].ticket

\* C9: with the account and symbol metadata at hand, calculate_lot_size
\* returns a volume between min_lot and max_lot that is an integer multiple
\* of volume_step.
C9_LotBoundedQuantized ==
    (/\ lot.phase = "out"
     /\ lot.input.account_ok /\ lot.input.sym_calc_ok /\ lot.input.sym_round_ok
     /\ lot.input.contract # 0)
        => /\ FracLeq(Frac(lot.input.min_lot, 1), lot.result)
           /\ FracLeq(lot.result, Frac(lot.input.max_lot, 1))
           /\ lot.result.num % (lot.result.den * lot.input.volume_step) = 0

\* The modification check has run for the linked pair (1, 1) of SpecMod.
ModChecked ==
    /\ pc = "process" /\ midx = 2 /\ Len(master_orders) = 1
    /\ \/ 1 \notin DOMAIN last_master_state
       \/ Abs(master_orders[1].price - last_master_state[1].price) > Tol
       \/ Abs(master_orders[1].sl - last_master_state[1].sl) > Tol
       \/ Abs(master_orders[1].tp - last_master_state[1].tp) > Tol
       \/ master_orders[1].volume # last_master_state[1].volume

\* The differences between the master order and the follower's order as read.
ModDeltas ==
    {Abs(master_orders[1].sl - f_orders[1].sl),
     Abs(master_orders[1].tp - f_orders[1].tp),
     Abs(master_orders[1].price - f_orders[1].price_open)}

ModifyCount ==
    Cardinality({i \in 1..Len(log) : log[i].kind = "modify" /\ log[i].ticket = 1})

\* C10 as stated: differences all smaller than the tolerance issue no modify
\* request, a difference equal to or larger than it issues exactly one.
C10_Original ==
    ModChecked =>
        /\ (\A d \in ModDeltas : d < Tol) => ModifyCount = 0
        /\ (\E d \in ModDeltas : d >= Tol) => ModifyCount = 1

\* C10 amended: differences none larger than the tolerance issue no modify
\* request, a difference larger than the tolerance issues exactly one.
C10_ToleranceThreshold ==
    ModChecked =>
        /\ (\A d \in ModDeltas : d <= Tol) => ModifyCount = 0
        /\ (\E d \in ModDeltas : d > Tol) => ModifyCount = 1

\* C10 witness: the stop-loss is apart by more than the tolerance and the
\* take-profit by exactly the tolerance; one modify, for the stop-loss only.
C10_Witness ==
    /\ ModChecked
    /\ Abs(master_orders[1].sl - f_orders[1].sl) > Tol
    /\ Abs(master_orders[1].tp - f_orders[1].tp) = Tol
    /\ Abs(master_orders[1].price - f_orders[1].price_open) = 0
    /\ ModifyCount = 1
    /\ DOMAIN log[Len(log)].params = {"sl"}

\* Follower f's own pass failed: no session, or its orders could not be read.
FailedItself(f) ==
    \E i \in 1..Len(log) :
        log[i].follower = f /\ log[i].kind \in {"connect_failed", "sync_error"}

\* Follower f was reconciled with the snapshot of the cycle: every master
\* order is linked to a live order of f, or recorded as closed by hand, or
\* its create was tried and refused; every live copy of f whose master
\* ticket is gone was sent a close or cancel.
Reconciled(f) ==
    /\ \E i \in 1..Len(log) : log[i].follower = f /\ log[i].kind = "connected"
    /\ \A j \in 1..Len(master_orders) :
          LET t == master_orders[j].ticket
          IN  \/ /\ t \in DOMAIN follower_orders
                 /\ f \in DOMAIN follower_orders[t]
                 /\ follower_orders[t][f] \in DOMAIN facct[f]
              \/ (t \in DOMAIN manually_closed /\ f \in manually_closed[t])
              \/ \E i \in 1..Len(log) :
                    /\ log[i].follower = f /\ log[i].master_ticket = t
                    /\ log[i].kind \in {"create", "no_symbol"} /\ ~log[i].ok
    /\ \A k \in DOMAIN facct[f] :
          (/\ facct[f][k].magic = FollowerConfig(f).magic_number
           /\ CommentTicket(facct[f][k].comment) # 0
           /\ CommentTicket(facct[f][k].comment)
                 \notin {master_orders[j].ticket : j \in 1..Len(master_orders)})
              => \E i \in 1..Len(log) :
                    /\ log[i].follower = f /\ log[i].ticket = k
                    /\ log[i].kind \in {"close", "cancel"}

\* C11: a cycle that detected master changes ends with every enabled
\* follower connected and reconciled, unless that follower's own session or
\* read failed; a failure of an earlier follower changes nothing in it.
C11_EveryFollowerReconciled ==
    [][(pc = "follower" /\ pc' = "idle")
          => \A f \in Followers :
                FollowerConfig(f).enabled => (FailedItself(f) \/ Reconciled(f))]_vars

\* C11 witness: the cycle is over, the first follower failed to connect,
\* could not be read or had a request rejected, and the second follower was
\* connected and got its copy.
C11_Witness ==
    /\ pc = "idle"
    /\ \E i \in 1..Len(log) : log[i].follower = 1 /\ ~log[i].ok
    /\ \E i \in 1..Len(log) : log[i].follower = 2 /\ log[i].kind = "connected"
    /\ \E i \in 1..Len(log) :
          log[i].follower = 2 /\ log[i].kind = "create" /\ log[i].ok

\* C12: the set of followers recorded as having closed master ticket t by
\* hand never loses a member, in no step and so in no successful create;
\* the code has no step that purges the record, so this holds without the
\* proviso "while t has not been purged".
C12_ManualCloseOnlyGrows ==
    [][\A t \in DOMAIN manually_closed :
          /\ t \in DOMAIN manually_closed'
          /\ manually_closed[t] \subseteq manually_closed'[t]]_vars

\* C12 witness: follower f was recorded for ticket t in this cycle, a create
\* for another ticket succeeded on f afterwards, and f is still recorded.
C12_Witness ==
    \E i, j \in 1..Len(log) :
        /\ i < j
        /\ log[i].kind = "manual_close"
        /\ log[j].kind = "create" /\ log[j].ok
        /\ log[j].follower = log[i].follower
        /\ log[j].master_ticket # log[i].master_ticket
        /\ log[i].master_ticket \in DOMAIN manually_closed
        /\ log[i].follower \in manually_closed[log[i].master_ticket]

\* C13: the orders read into the reconciliation of follower f all carry
\* f's magic number, every modify, close or cancel request goes to an order
\* with that magic number, and no step of the engine changes or removes an
\* order of the follower with another magic number.
C13_OnlyOwnMagic ==
    [][/\ \A k \in DOMAIN f_orders' :
             f_orders'[k].magic = FollowerConfig(fidx').magic_number
       /\ (/\ Len(log') = Len(log) + 1
           /\ log'[Len(log')].kind \in {"modify", "close", "cancel"})
             => LET e == log'[Len(log')]
                IN  e.ticket \in DOMAIN facct[e.follower]
                       => facct[e.follower][e.ticket].magic
                             = FollowerConfig(e.follower).magic_number
       /\ events' = events
             => \A f \in Followers : \A k \in DOMAIN facct[f] :
                   facct[f][k].magic # FollowerConfig(f).magic_number
                      => (k \in DOMAIN facct'[f] /\ facct'[f][k] = facct[f][k])]_vars

\* C13 witness: a follower's pass has closed or cancelled its own copy of
\* the vanished master ticket 2, and the follower's order with another
\* magic number and the same Copy: comment is still there.
C13_Witness ==
    \E f \in Followers :
        /\ pc = "follower" /\ fidx > f
        /\ \E i \in 1..Len(log) :
              /\ log[i].follower = f /\ log[i].kind \in {"close", "cancel"}
              /\ log[i].ok /\ log[i].master_ticket = 2
        /\ \E k \in DOMAIN facct[f] :
              /\ facct[f][k].magic # FollowerConfig(f).magic_number
              /\ facct[f][k].comment = CopyComment(2)

\* C14: whenever the new-copy step runs for a pair (t, f), the pair neither
\* linked nor recorded as closed by hand, it submits a create request for
\* the pair, also when the symbol metadata of the mapped symbol is
\* unavailable (the volume then being the master volume).
C14_CopyProceedsWithoutMetadata ==
    [][(/\ pc = "process" /\ midx <= Len(master_orders) /\ midx' = midx + 1
        /\ LET t == master_orders[midx].ticket
           IN  /\ ~(t \in DOMAIN follower_orders /\ fidx \in DOMAIN follower_orders[t])
               /\ ~(t \in DOMAIN manually_closed /\ fidx \in manually_closed[t]))
          => NewEntry("create", master_orders[midx].ticket, fidx)]_vars

\* C15: when the symbol metadata is unavailable at every lookup,
\* calculate_lot_size returns exactly the master volume it was given,
\* whatever the sizing policy.
C15_NoMetadataReturnsMasterVolume ==
    (/\ lot.phase = "out"
     /\ ~lot.input.sym_calc_ok /\ ~lot.input.sym_round_ok)
        => lot.result.num = lot.input.master_volume * lot.result.den

\* The two snapshots differ in their ticket sets, or a ticket of both
\* differs in price, stop-loss or take-profit by more than the tolerance or
\* in volume (a hundredth of a lot is far above the tolerance).
SnapshotsDiffer(cur, last) ==
    \/ DOMAIN cur # DOMAIN last
    \/ \E t \in DOMAIN cur \cap DOMAIN last :
          \/ Abs(cur[t].price - last[t].price) > Tol
          \/ Abs(cur[t].sl - last[t].sl) > Tol
          \/ Abs(cur[t].tp - last[t].tp) > Tol
          \/ cur[t].volume # last[t].volume

\* C16: when a cycle starts, the detector reports changes (the cycle goes on
\* to the followers) exactly when the fetched snapshot and the previous one
\* differ in their ticket sets or a common ticket differs in price,
\* stop-loss, take-profit or volume by more than the tolerance; it reports
\* none for two equal snapshots, empty ones included.
C16_DetectExactly ==
    [][(pc = "idle" /\ events' = events)
          => LET cur == IF faults' = faults THEN StateOf(OrderList(master))
                        ELSE EmptyDict
             IN  (pc' = "follower") <=> SnapshotsDiffer(cur, last_master_state)]_vars

\* C16 witness: the cycle started with a snapshot that is not the previous
\* one, the difference being no more than the tolerance, and the detector
\* reported no changes.
C16_Witness ==
    /\ pc = "idle" /\ log = <<>> /\ prev_log # <<>>
    /\ ~same_snapshot
    /\ last_master_state # EmptyDict
    /\ last_master_state = StateOf(OrderList(master))

\* C17: for one follower, no follower ticket is recorded under two
\* different master tickets of the link table at the same time.
C17_FollowerTicketLinkedOnce ==
    \A t1, t2 \in DOMAIN follower_orders :
        \A f \in (DOMAIN follower_orders[t1]) \cap (DOMAIN follower_orders[t2]) :
            t1 # t2 => follower_orders[t1][f] # follower_orders[t2][f]

\* C17 witness: one follower has copies of two master tickets linked, both
\* live on its account.
C17_Witness ==
    \E t1, t2 \in DOMAIN follower_orders :
        \E f \in (DOMAIN follower_orders[t1]) \cap (DOMAIN follower_orders[t2]) :
            /\ t1 # t2
            /\ follower_orders[t1][f] \in DOMAIN facct[f]
            /\ follower_orders[t2][f] \in DOMAIN facct[f]

\* C18: map_symbol returns the entry of the follower's mapping table for
\* the master symbol when the table has an entry for exactly that symbol,
\* returns the master symbol itself otherwise, and leaves the tables of the
\* engine as they were.
C18_MapSymbolExact ==
    [][(lot.phase = "map_in" /\ lot'.phase = "map_out")
          => /\ lot'.result =
                   (IF lot.input.master_symbol \in DOMAIN lot.input.symbol_mapping
                    THEN lot.input.symbol_mapping[lot.input.master_symbol]
                    ELSE lot.input.master_symbol)
             /\ UNCHANGED <<follower_orders, last_master_state, order_sync_status,
                            manually_closed>>]_vars

\* C18 witness: the table has an entry for the symbol in another case and
\* none for the symbol itself, and the master symbol came back.
C18_Witness ==
    /\ lot.phase = "map_out"
    /\ lot.input.master_symbol = "EURUSD"
    /\ DOMAIN lot.input.symbol_mapping = {"eurusd", "GBPUSD"}
    /\ lot.result = "EURUSD"

\* C19: in a cycle in which the session with the master account could not
\* be established, the engine sends no create, modify, close or cancel
\* request and leaves the link table, the status table and the manual-close
\* record as they were.
C19_MasterFailureNoAction ==
    [][(log' # <<>> /\ log'[1].kind = "master_connect_failed")
          => /\ Requests(log') = {}
             /\ follower_orders' = follower_orders
             /\ order_sync_status' = order_sync_status
             /\ manually_closed' = manually_closed]_vars

\* C20: the engine having started with empty tables, a follower that holds
\* a live order with its magic number and comment Copy:<t> is sent no create
\* for the pair, and at no time holds two live orders with its magic number
\* and comment Copy:<t>.
C20_NoSecondCopyAfterRestart ==
    \A f \in Followers : \A t \in Tickets :
        LET copies == {k \in DOMAIN facct[f] :
                          /\ facct[f][k].magic = FollowerConfig(f).magic_number
                          /\ facct[f][k].comment = CopyComment(t)}
        IN  Cardinality(copies) <= 1

\* C21: when a linked pair (t, f), t in the master snapshot, comes up in
\* f's pass and its follower ticket is not among f's live orders, the step
\* adds f to the manual-close record of t and removes the link entry and the
\* status entry of (t, f); the cycle has no request for a pair it found
\* closed by hand.
C21_ManualCloseDetected ==
    [][/\ (/\ pc = "process" /\ midx <= Len(master_orders) /\ midx' = midx + 1
           /\ master_orders[midx].ticket \in DOMAIN follower_orders
           /\ fidx \in DOMAIN follower_orders[master_orders[midx].ticket]
           /\ follower_orders[master_orders[midx].ticket][fidx]
                 \notin DOMAIN facct[fidx])
             => LET t == master_orders[midx].ticket
                IN  /\ t \in DOMAIN manually_closed'
                    /\ fidx \in manually_closed'[t]
                    /\ ~(t \in DOMAIN follower_orders'
                           /\ fidx \in DOMAIN follower_orders'[t])
                    /\ ~(t \in DOMAIN order_sync_status'
                           /\ fidx \in DOMAIN order_sync_status'[t])
                    /\ NewEntry("manual_close", t, fidx)
       /\ \A i \in 1..Len(log') :
             log'[i].kind = "manual_close"
                => \A j \in Requests(log') :
                      ~(/\ log'[j].master_ticket = log'[i].master_ticket
                        /\ log'[j].follower = log'[i].follower)]_vars

\* C21 witness: a pair that had a status entry was found closed by hand; it
\* is recorded, and its link and status entries are gone while the other
\* follower's link for the ticket is kept.
C21_Witness ==
    \E i \in 1..Len(log) :
        /\ log[i].kind = "manual_close"
        /\ LET t == log[i].master_ticket
               f == log[i].follower
           IN  /\ \E j \in 1..Len(prev_log) :
                     /\ prev_log[j].kind = "modify"
                     /\ prev_log[j].master_ticket = t /\ prev_log[j].follower = f
               /\ t \in DOMAIN manually_closed /\ f \in manually_closed[t]
               /\ t \in DOMAIN follower_orders
               /\ f \notin DOMAIN follower_orders[t]
               /\ t \in DOMAIN order_sync_status
               /\ f \notin DOMAIN order_sync_status[t]

\* The fields a modify for the pair (1, 1) of SpecMod is due to carry:
\* stop-loss and take-profit when apart by more than the tolerance, the
\* price when so apart and the follower's order is a pending order.
ModDueFields ==
    {k \in {"sl", "tp", "price"} :
        \/ k = "sl" /\ Abs(master_orders[1].sl - f_orders[1].sl) > Tol
        \/ k = "tp" /\ Abs(master_orders[1].tp - f_orders[1].tp) > Tol
        \/ /\ k = "price"
           /\ f_orders[1].order_type \notin {ORDER_TYPE_BUY, ORDER_TYPE_SELL}
           /\ Abs(master_orders[1].price - f_orders[1].price_open) > Tol}

\* C22: a modify request for a linked pair carries exactly the due fields
\* (the price only for a pending order of the follower), and no modify is
\* sent when no field is due.
C22_ModifyCarriesDueFields ==
    ModChecked =>
        /\ ModDueFields = {} => ModifyCount = 0
        /\ \A i \in 1..Len(log) :
              log[i].kind = "modify" => DOMAIN log[i].params = ModDueFields

\* C23: a modify request is sent for a linked pair (t, f) only in a cycle
\* where master ticket t has no entry in the previous master snapshot or
\* differs from it in price, stop-loss, take-profit or volume by more than
\* the tolerance; for an unchanged t no modify is sent, whatever the
\* follower's live order holds.
C23_ModifyOnlyForChangedTicket ==
    [][(/\ Len(log') = Len(log) + 1
        /\ log'[Len(log')].kind = "modify")
          => LET t == log'[Len(log')].master_ticket
                 m == master_orders[midx]
             IN  /\ m.ticket = t
                 /\ \/ t \notin DOMAIN last_master_state
                    \/ Abs(m.price - last_master_state[t].price) > Tol
                    \/ Abs(m.sl - last_master_state[t].sl) > Tol
                    \/ Abs(m.tp - last_master_state[t].tp) > Tol
                    \/ m.volume # last_master_state[t].volume]_vars

\* C23 witness: follower f's pass is over in a cycle that passed the gate;
\* master ticket t is as in the previous snapshot, f's live copy of t has a
\* stop-loss apart from the master's by more than the tolerance, and the
\* cycle has no modify for the pair.
C23_Witness ==
    \E f \in Followers : \E j \in 1..Len(master_orders) :
        LET m == master_orders[j]
            t == m.ticket
        IN  /\ pc = "follower" /\ fidx > f
            /\ \E i \in 1..Len(log) : log[i].kind = "connected" /\ log[i].follower = f
            /\ t \in DOMAIN last_master_state /\ last_master_state[t] = m
            /\ t \in DOMAIN follower_orders /\ f \in DOMAIN follower_orders[t]
            /\ follower_orders[t][f] \in DOMAIN facct[f]
            /\ Abs(m.sl - facct[f][follower_orders[t][f]].sl) > Tol
            /\ \A i \in 1..Len(log) :
                  ~(log[i].kind = "modify" /\ log[i].master_ticket = t
                    /\ log[i].follower = f)

\* C24: the step in which the close or cancel of a copy of master ticket t
\* is confirmed for one follower removes the link, status and manual-close
\* entries of t for all followers.
C24_CleanupPurgesAllFollowers ==
    [][(/\ Len(log') = Len(log) + 1
        /\ log'[Len(log')].kind \in {"close", "cancel"}
        /\ log'[Len(log')].ok)
          => LET t == log'[Len(log')].master_ticket
             IN  /\ t \notin DOMAIN follower_orders'
                 /\ t \notin DOMAIN order_sync_status'
                 /\ t \notin DOMAIN manually_closed']_vars

\* C30: at the end of every cycle a status entry exists for a pair (t, f)
\* only if a link entry exists for (t, f).
C30_StatusOnlyForLinkedPairs ==
    pc = "idle" =>
        \A t \in DOMAIN order_sync_status : \A f \in DOMAIN order_sync_status[t] :
            t \in DOMAIN follower_orders /\ f \in DOMAIN follower_orders[t]

\* The master tickets of the snapshot the cycle works with.
SnapshotTickets == {master_orders[j].ticket : j \in 1..Len(master_orders)}

\* C25: when follower f's pass ends, every order f held when it was read
\* that carries f's magic number and a comment Copy:<t> with t absent from
\* the master snapshot has been sent a close or cancel, whether or not the
\* link table has an entry for (t, f).
C25_OrphansByCommentClosed ==
    [][(pc = "cleanup" /\ pc' = "follower")
          => \A k \in (DOMAIN f_orders) \cup (DOMAIN facct[fidx]) :
                LET o == IF k \in DOMAIN f_orders THEN f_orders[k] ELSE facct[fidx][k]
                IN  (/\ o.magic = FollowerConfig(fidx).magic_number
                     /\ Len(o.comment) = 2 /\ o.comment[1] = "Copy:"
                     /\ o.comment[2] \notin SnapshotTickets)
                       => \E i \in 1..Len(log) :
                             /\ log[i].kind \in {"close", "cancel"}
                             /\ log[i].follower = fidx /\ log[i].ticket = k]_vars

\* C25 witness: the engine started with empty tables, never had a link for
\* master ticket 2, and a follower's copy of ticket 2 from before the start
\* was closed or cancelled with success while the master's ticket 1 stays.
C25_Witness ==
    \E i \in 1..Len(log) :
        /\ log[i].kind \in {"close", "cancel"} /\ log[i].ok
        /\ log[i].master_ticket = 2 /\ log[i].ticket = 2
        /\ 2 \notin DOMAIN follower_orders
        /\ 2 \notin DOMAIN facct[log[i].follower]
        /\ 1 \in SnapshotTickets

\* C26: a close or cancel goes to a follower order only when the master
\* ticket associated with it, by its Copy: comment or by the link table, is
\* absent from the master snapshot of the cycle; no step of the engine
\* removes an order of a follower whose comment names a ticket of the
\* snapshot, or that has no Copy: comment and no link.
C26_CloseOnlyOrphans ==
    [][/\ (/\ Len(log') = Len(log) + 1
           /\ log'[Len(log')].kind \in {"close", "cancel"})
             => LET e == log'[Len(log')]
                IN  /\ e.master_ticket \notin SnapshotTickets
                    /\ e.ticket \in DOMAIN f_orders
                    /\ \/ f_orders[e.ticket].comment = CopyComment(e.master_ticket)
                       \/ /\ e.master_ticket \in DOMAIN follower_orders
                          /\ e.follower \in DOMAIN follower_orders[e.master_ticket]
                          /\ follower_orders[e.master_ticket][e.follower] = e.ticket
       /\ events' = events
             => \A f \in Followers : \A k \in DOMAIN facct[f] :
                   k \notin DOMAIN facct'[f]
                      => /\ Len(facct[f][k].comment) = 2
                         /\ facct[f][k].comment[2] \notin SnapshotTickets]_vars

\* C26 witness: a follower's pass is over in a cycle that closed or
\* cancelled its copy of the vanished ticket 2, and its order from before
\* the start with comment Copy:1, ticket 1 being in the snapshot, is live.
C26_Witness ==
    \E f \in Followers :
        /\ pc = "follower" /\ fidx > f
        /\ 1 \in SnapshotTickets
        /\ \E i \in 1..Len(log) :
              /\ log[i].follower = f /\ log[i].kind \in {"close", "cancel"}
              /\ log[i].ok /\ log[i].ticket = 2
        /\ 1 \in DOMAIN facct[f]
        /\ facct[f][1].comment = CopyComment(1)
        /\ facct[f][1].magic = FollowerConfig(f).magic_number

\* C27: every request of the cleanup is a close when the follower order it
\* goes to is a filled position (type buy or sell) and a cancel when it is a
\* pending order.
C27_CloseForPositionCancelForPending ==
    [][(/\ Len(log') = Len(log) + 1
        /\ log'[Len(log')].kind \in {"close", "cancel"})
          => LET e == log'[Len(log')]
                 type == f_orders[e.ticket].order_type
             IN  /\ type \in {ORDER_TYPE_BUY, ORDER_TYPE_SELL} => e.kind = "close"
                 /\ type \notin {ORDER_TYPE_BUY, ORDER_TYPE_SELL} => e.kind = "cancel"]_vars

\* C27 witness: in one cycle the cleanup has closed a position and cancelled
\* a pending order, both with success.
C27_Witness ==
    \E i, j \in 1..Len(log) :
        /\ log[i].kind = "close" /\ log[i].ok
        /\ log[j].kind = "cancel" /\ log[j].ok

\* C28: the create request for pair (t, f) carries the master order's type,
\* price, stop-loss and take-profit, the symbol f's mapping table gives
\* (the master's symbol for follower 1, whose table is empty, EURUSD.m for
\* the others), the volume f's policy gives (half the master's volume for
\* follower 1, 0.10 lot for the others), the comment Copy:<t> and f's magic
\* number; when it succeeds the link table maps (t, f) to the ticket the
\* terminal returned, which is the ticket of the new order on f's account.
C28_CreateRequestContents ==
    [][(/\ Len(log') = Len(log) + 1
        /\ log'[Len(log')].kind = "create")
          => LET e == log'[Len(log')]
                 m == master_orders[midx]
                 r == e.params
             IN  /\ e.master_ticket = m.ticket /\ e.follower = fidx
                 /\ m.ticket \in DOMAIN master /\ m = master[m.ticket]
                 /\ r.order_type = m.order_type
                 /\ r.price = m.price /\ r.sl = m.sl /\ r.tp = m.tp
                 /\ r.symbol = IF fidx # 1 /\ m.symbol = "EURUSD" THEN "EURUSD.m"
                                ELSE m.symbol
                 /\ IF fidx = 1 THEN r.volume.num * 2 = m.volume * r.volume.den
                                ELSE r.volume.num = 10 * r.volume.den
                 /\ r.comment = <<"Copy:", m.ticket>>
                 /\ r.magic = 7000 + fidx
                 /\ e.ok => /\ e.ticket \notin DOMAIN facct[fidx]
                            /\ e.ticket \in DOMAIN facct'[fidx]
                            /\ facct'[fidx][e.ticket].comment = r.comment
                            /\ m.ticket \in DOMAIN follower_orders'
                            /\ fidx \in DOMAIN follower_orders'[m.ticket]
                            /\ follower_orders'[m.ticket][fidx] = e.ticket
                 /\ ~e.ok => follower_orders' = follower_orders]_vars

\* C28 witness: a master order with a stop-loss set was copied to follower 2
\* with success, under the mapped symbol, and the pair is linked to the new
\* ticket.
C28_Witness ==
    \E i \in 1..Len(log) :
        /\ log[i].kind = "create" /\ log[i].ok /\ log[i].follower = 2
        /\ log[i].params.sl > 0
        /\ log[i].params.symbol = "EURUSD.m"
        /\ log[i].master_ticket \in DOMAIN follower_orders
        /\ 2 \in DOMAIN follower_orders[log[i].master_ticket]
        /\ follower_orders[log[i].master_ticket][2] = log[i].ticket

\* The entries a table keyed by master ticket and follower holds for f.
EntriesOf(table, f) ==
    [t \in {u \in DOMAIN table : f \in DOMAIN table[u]} |-> table[t][f]]

\* The master tickets the manual-close record holds for f.
ManualOf(record, f) == {t \in DOMAIN record : f \in record[t]}

\* C29: once the session with follower f has failed in a cycle, no step of
\* that cycle sends a request to f or changes a link, status or
\* manual-close entry of f.
C29_FailedFollowerUntouched ==
    [][\A f \in Followers :
          (/\ pc # "idle"
           /\ \E i \in 1..Len(log') :
                 log'[i].kind = "connect_failed" /\ log'[i].follower = f)
             => /\ EntriesOf(follower_orders', f) = EntriesOf(follower_orders, f)
                /\ EntriesOf(order_sync_status', f) = EntriesOf(order_sync_status, f)
                /\ ManualOf(manually_closed', f) = ManualOf(manually_closed, f)
                /\ facct'[f] = facct[f]
                /\ Len(log') = Len(log) + 1
                      => ~(/\ log'[Len(log')].follower = f
                           /\ log'[Len(log')].kind \in
                                 {"create", "modify", "close", "cancel"})]_vars

\* C31: every step that ends a cycle, whether the followers were skipped
\* (the cycle starts and ends in one step) or reconciled, leaves as the
\* retained state the snapshot the cycle fetched: the master account's
\* orders, or nothing when the session with the master failed.
C31_RetainedStateIsFetchedSnapshot ==
    [][(pc' = "idle" /\ events' = events)
          => LET master_failed ==
                    IF pc = "idle" THEN faults' # faults
                    ELSE Len(log) > 0 /\ log[1].kind = "master_connect_failed"
             IN  last_master_state' = IF master_failed THEN <<>> ELSE master]_vars

\* C31 witness: a cycle in which a follower's session failed has ended and
\* the retained state is the master's changed order.
C31_Witness ==
    /\ pc = "idle"
    /\ \E i \in 1..Len(log) : log[i].kind = "connect_failed"
    /\ DOMAIN master # {}
    /\ last_master_state = master
    /\ \E t \in DOMAIN master : master[t].sl > 0

\* C32: for a follower whose enabled flag is false, the cycle's log holds
\* no connection and no request, only the skip; no step of the engine
\* changes its account; and the link, status and manual-close tables never
\* hold an entry for it.
C32_DisabledFollowerUntouched ==
    [][\A f \in Followers :
          ~enabled[f]
             => /\ \A i \in 1..Len(log') :
                      log'[i].follower = f => log'[i].kind = "disabled"
                /\ events' = events => facct'[f] = facct[f]
                /\ \A t \in DOMAIN follower_orders' : f \notin DOMAIN follower_orders'[t]
                /\ \A t \in DOMAIN order_sync_status' :
                      f \notin DOMAIN order_sync_status'[t]
                /\ \A t \in DOMAIN manually_closed' : f \notin manually_closed'[t]]_vars

\* C32 witness: a cycle that removed the master's ticket 2 has ended; the
\* enabled follower's copy was cancelled or closed, the disabled follower
\* was skipped and still holds its copy of the vanished ticket 1.
C32_Witness ==
    \E f, g \in Followers :
        /\ pc = "idle" /\ ~enabled[f] /\ enabled[g]
        /\ 1 \in DOMAIN facct[f] /\ facct[f][1].comment = <<"Copy:", 1>>
        /\ DOMAIN master = {}
        /\ \E i \in 1..Len(log) : log[i].follower = f /\ log[i].kind = "disabled"
        /\ \E i \in 1..Len(log) :
              /\ log[i].follower = g /\ log[i].kind \in {"close", "cancel"}
              /\ log[i].ok

\* C33: calculated_lot, as it stands before the limits and the rounding
\* are applied, is lot_value for the fixed policy whatever the master volume,
\* master volume times lot_value for the multiplier policy, and the same
\* product for the risk_based policy (volumes in hundredths of a lot, the
\* factor in hundredths).
C33_VolumeBeforeClamping ==
    lot.phase = "out" =>
        LET in == lot.input
            v == lot.calculated
        IN  /\ in.lot_calculation = "fixed" => v.num = in.lot_value * v.den
            /\ in.lot_calculation \in {"multiplier", "risk_based"}
                  => v.num * 100 = in.master_volume * in.lot_value * v.den

\* C33 witness: a risk_based call with master volume 1.00 and value 2.0 has
\* computed 2.00 lots, and the limits then brought the result down.
C33_Witness ==
    /\ lot.phase = "out"
    /\ lot.input.lot_calculation = "risk_based"
    /\ lot.input.master_volume = 100 /\ lot.input.lot_value = 200
    /\ lot.calculated.num = 200 * lot.calculated.den
    /\ lot.result.num < 200 * lot.result.den

====
